---- MODULE Spec2Model ----
(***************************************************************************)
(* Model of axlearn/common/checkpointer_orbax.py: OrbaxCheckpointer, a     *)
(* thin facade over an orbax CheckpointManager, and _TfIteratorHandler,    *)
(* the type handler the module registers for tf.data.Iterator.             *)
(*                                                                         *)
(* The checkpointer's own code (save, restore, _get_spec,                  *)
(* save_fn_with_summaries, the manager options) is translated from the     *)
(* source.  The manager behind self._manager (asynchronous commit,         *)
(* retention, listing of committed steps, preemption) and                  *)
(* check_state_structure live outside this file; they are modelled from    *)
(* the contract the source's comments and the specification give them, as  *)
(* is orbax's type-handler registry.                                       *)
(*                                                                         *)
(* Spec: one training loop saving and restoring.  SpecConc: save() called  *)
(* from several threads.  SpecRegistry: registrations in the registry.     *)
(* SpecHandler: serialize and deserialize calls of the handler.            *)
(***************************************************************************)
EXTENDS Integers, Sequences, FiniteSets, TLC

\* ---------------------------------------------------------------- bounds
MaxStep == 2
NumThreads == 2
NumTrees == 3
MaxKeep == 2
NumHandlers == 2
MaxPairs == 2

Steps == 1..MaxStep
Threads == 1..NumThreads
PairIds == 1..MaxPairs

\* ------------------------------------------------------- python values
\* Python None for the step argument / resolved step.
NoStep == 0

\* evaler_summaries: None, or a dict (modelled by its set of keys).
None == [isNone |-> TRUE, d |-> {}]
Dict(d) == [isNone |-> FALSE, d |-> d]
SummaryArgs == {None, Dict({}), Dict({"eval"})}

\* Leaves of a state tree.  Tensor / TensorSpec, tf.data.Iterator, literal.
TensorLeaf(dt, sh) == [kind |-> "tensor", dtype |-> dt, shape |-> sh, lit |-> 0]
IteratorLeaf == [kind |-> "iterator", dtype |-> "", shape |-> "", lit |-> 0]
LiteralLeaf(v) == [kind |-> "literal", dtype |-> "", shape |-> "", lit |-> v]

\* utils.flatten_items(state): the (path, value) pairs of a tree in its fixed
\* flattening order.  A tree is represented by that sequence.
Item(p, l) == [path |-> p, leaf |-> l]
AllTrees ==
  << << Item("a", TensorLeaf("float32", "(2, 3)")), Item("b", LiteralLeaf(7)) >>,
     << Item("a", TensorLeaf("float32", "(2, 3)")), Item("it", IteratorLeaf) >>,
     << Item("a", TensorLeaf("float32", "(2, 4)")), Item("it", IteratorLeaf) >>,
     << Item("a", TensorLeaf("float32", "(2, 3)")) >>,
     << Item("a", TensorLeaf("float32", "(2, 4)")), Item("b", LiteralLeaf(7)) >>,
     << Item("a", TensorLeaf("float32", "(2, 3)")), Item("b", LiteralLeaf(8)) >>,
     << >> >>
TreeSet == {AllTrees[i] : i \in 1..(IF NumTrees < Len(AllTrees) THEN NumTrees ELSE Len(AllTrees))}

\* ----------------------------------------------------------- _get_spec
\* Index descriptors: {"dtype":..., "shape":...} for tensors, str(type(value))
\* for iterators, the value itself otherwise.  shapeType is the python type of
\* the dict's "shape" value: "str" as the code writes it, else "tuple" or "list".
DictDesc(dt, sh, ty) == [tag |-> "dict", dtype |-> dt, shape |-> sh, shapeType |-> ty, lit |-> 0]
StrDesc(s) == [tag |-> "str", dtype |-> s, shape |-> "", shapeType |-> "", lit |-> 0]
LitDesc(v) == [tag |-> "lit", dtype |-> "", shape |-> "", shapeType |-> "", lit |-> v]

\* A python pair: a tuple as _get_spec builds it, a list once read from JSON.
Pair(c, k, v) == [container |-> c, k |-> k, v |-> v]

\* Mutant: the shape is put into the index as the tuple, not as its string.
LeafDesc_TupleShape(l) ==
  IF l.kind = "tensor" THEN DictDesc(l.dtype, l.shape, "tuple")
  ELSE IF l.kind = "iterator" THEN StrDesc("<class 'tf.data.Iterator'>")
  ELSE LitDesc(l.lit)

\* Lines 181-189: the entry of one leaf; dtype and shape go in as strings.
LeafDesc(l) ==
  IF l.kind = "tensor" THEN DictDesc(l.dtype, l.shape, "str")
  ELSE IF l.kind = "iterator" THEN StrDesc("<class 'tf.data.Iterator'>")
  ELSE LitDesc(l.lit)

\* Mutant: the step entry is appended after the leaves.
GetSpec_StepLast(step, state) ==
  [i \in 1..Len(state) |-> Pair("tuple", state[i].path, LeafDesc(state[i].leaf))]
    \o << Pair("tuple", "step", LitDesc(step)) >>

\* Lines 179-190: [("step", step)] followed by one (path, entry) pair per
\* leaf of utils.flatten_items(state), in that order.
GetSpec(step, state) ==
  << Pair("tuple", "step", LitDesc(step)) >>
    \o [i \in 1..Len(state) |-> Pair("tuple", state[i].path, LeafDesc(state[i].leaf))]

\* ocp.JsonCheckpointHandler: the index is written as JSON and parsed back.
\* JSON has no tuples: every tuple, a pair or a value inside a dict, comes back
\* as a list.  Strings, ints and string-valued dicts survive unchanged.
JsonValue(v) == IF v.shapeType = "tuple" THEN [v EXCEPT !.shapeType = "list"] ELSE v
JsonRoundTrip(index) ==
  [i \in 1..Len(index) |->
     [container |-> "list", k |-> index[i].k, v |-> JsonValue(index[i].v)]]

\* ------------------------------------------------------------ the state
VARIABLES
  cfg,              \* OrbaxCheckpointer.Config and the storage backend
  trainState,       \* the state tree the training loop checkpoints
  _eval_summaries,  \* self._eval_summaries
  pc,               \* per calling thread: position inside save()
  call,             \* per calling thread: arguments and locals of save()
  lastSave,         \* per calling thread: how its last save() ended
  maxCalled,        \* highest step the training loop has passed to save()
  dirs,             \* storage: the step directories under cfg.dir
  inflight,         \* manager: the steps whose asynchronous save is running
  pending,          \* manager: per step, the index and state handed to its save
  asyncError,       \* manager: a background save failed, not yet reported
  toDelete,         \* manager: background-delete queue
  committedLog,     \* history: steps in the order they were committed
  preemptAt,        \* preemption sync point (NoStep: no signal)
  exited,           \* SystemExit was raised: the process is gone
  rst,              \* result of the restore() call that has just returned
  registry,         \* type-handler registry: category -> registered handler
  lastOverride,     \* history: per category, the last handler registered with override
  regResult,        \* the register_type_handler call that has just returned
  imported,         \* checkpointer_orbax has been imported (line 94 has run)
  hcall,            \* _TfIteratorHandler: the serialize/deserialize call under way
  pool,             \* the call's ThreadPoolExecutor: queue, running tasks, shutdown
  task,             \* per (value, info) pair: its routine's status and history
  dirExists,        \* storage: per pair, whether info.path exists
  startLog,         \* history: pairs in the order their routines were started
  restored          \* pairs whose iterator has been restored in place

\* The checkpointer's variables and the handler's.
cvars == << cfg, trainState, _eval_summaries, pc, call, lastSave, maxCalled, dirs, inflight,
            pending, asyncError, toDelete, committedLog, preemptAt, exited, rst >>
hvars == << registry, lastOverride, regResult, imported, hcall, pool, task, dirExists,
            startLog, restored >>
vars == << cvars, hvars >>

\* ------------------------------------------------------- configuration
\* cfg.save_policy.instantiate(): the injected policy, called with the
\* keyword arguments step and evaler_summaries.
Policies == {"even_steps", "on_eval"}
save_policy(p, step, evaler_summaries) ==
  IF p = "even_steps" THEN step % 2 = 0
  ELSE "eval" \in evaler_summaries.d

\* CheckpointValidationType: EXACT and one containment-tolerant mode.
ValidationTypes == {"EXACT", "CONTAINS_STATE"}

\* The two commit conventions of the class docstring: atomic rename out of a
\* "tmp" name, or a commit_success.txt marker file.
Backends == {"rename", "marker"}

Configs ==
  [keep_last_n : 1..MaxKeep, validation_type : ValidationTypes,
   save_policy : Policies, backend : Backends]

\* Mutant: one checkpoint too many is kept.
max_to_keep_OffByOne == cfg.keep_last_n + 1

\* CheckpointManagerOptions(max_to_keep=cfg.keep_last_n, ...)
max_to_keep == cfg.keep_last_n
enable_background_delete == TRUE

\* --------------------------------------------------------------- storage
\* failed is history: the directory's save failed and left it behind.
NoDir == [name |-> "none", hasIndex |-> FALSE, index |-> << >>,
          hasState |-> FALSE, tree |-> << >>, marker |-> FALSE, failed |-> FALSE]

\* A step directory is committed when its backend's commit marker is there.
IsCommitted(d) ==
  IF cfg.backend = "rename" THEN d.name = "final"
  ELSE d.name = "final" /\ d.marker

\* Mutant: a listing keyed on the presence of the index artifact.
checkpoint_paths_ByIndex == {s \in Steps : dirs[s].name # "none" /\ dirs[s].hasIndex}

\* ocp.utils.checkpoint_steps_paths(base_dir), as steps.
checkpoint_paths == {s \in Steps : IsCommitted(dirs[s])}

SetMax(S) == CHOOSE x \in S : \A y \in S : y <= x

\* manager.latest_step()
latest_step == IF checkpoint_paths = {} THEN NoStep ELSE SetMax(checkpoint_paths)

\* manager.reached_preemption(step): the signal's sync point is a step, and
\* the answer depends on the step alone once the signal is there.
reached_preemption(step) == preemptAt # NoStep /\ step >= preemptAt

\* ------------------------------------------------------------------ Init
NoPending == [index |-> << >>, state |-> << >>]
NoPolicyCall == [names |-> {}, step |-> NoStep, evaler_summaries |-> None,
                 last_saved_step |-> NoStep, verdict |-> FALSE]
NoCall == [step |-> NoStep, state |-> << >>, evaler_summaries |-> None,
           spec |-> << >>, exc |-> "none", policy |-> NoPolicyCall]
NoRestore == [step |-> NoStep, template |-> << >>, outcome |-> "none",
              rstep |-> NoStep, state |-> << >>, found |-> FALSE,
              index |-> << >>, fresh |-> FALSE, inPlace |-> {}]
\* How a thread's last save() ended; verdict is the policy's answer in it
\* ("none" when the policy was not asked).
NoSave == [step |-> NoStep, outcome |-> "none", verdict |-> "none"]

\* The handler's side: the registry, a handler call, its executor, its tasks.
Categories == {"tf.data.Iterator", "jax.Array"}
OtherHandlers == {<< "handler", i >> : i \in 1..NumHandlers}
NoHandler == << "none", 0 >>
TfIteratorHandler == << "_TfIteratorHandler", 0 >>
NoReg == [category |-> "none", handler |-> NoHandler, override |-> FALSE,
          raised |-> "none", before |-> NoHandler]
NoHandlerCall == [op |-> "none", phase |-> "idle", nValues |-> 0, nInfos |-> 0,
                  argsNone |-> FALSE, args |-> << >>, parents |-> << >>,
                  i |-> 0, stmt |-> 0, futs |-> << >>, exc |-> "none"]
NoPool == [open |-> FALSE, queue |-> << >>, running |-> {}, shutdown |-> FALSE]
NoTask == [status |-> "none", dirAtStart |-> FALSE, thread |-> "none"]

\* The handler's variables once the module has been imported and before any
\* handler call: line 94 has put _TfIteratorHandler into the registry.
HandlerIdle ==
  /\ regResult = NoReg
  /\ hcall = NoHandlerCall
  /\ pool = NoPool
  /\ task = [i \in PairIds |-> NoTask]
  /\ dirExists = [i \in PairIds |-> FALSE]
  /\ startLog = << >>
  /\ restored = {}
HandlerInit ==
  /\ imported = TRUE
  /\ registry = [c \in Categories |->
                   IF c = "tf.data.Iterator" THEN TfIteratorHandler ELSE NoHandler]
  /\ lastOverride = registry
  /\ HandlerIdle

CheckpointerInit ==
  /\ cfg \in Configs
  /\ trainState \in TreeSet
  /\ _eval_summaries = None
  /\ pc = [t \in Threads |-> "idle"]
  /\ call = [t \in Threads |-> NoCall]
  /\ lastSave = [t \in Threads |-> NoSave]
  /\ maxCalled = 0
  /\ dirs = [s \in Steps |-> NoDir]
  /\ inflight = {}
  /\ pending = [s \in Steps |-> NoPending]
  /\ asyncError = FALSE
  /\ toDelete = {}
  /\ committedLog = << >>
  /\ preemptAt = NoStep
  /\ exited = FALSE
  /\ rst = NoRestore

Init == HandlerInit /\ CheckpointerInit

\* ------------------------------------------------------------- save()
\* Mutant: last_saved_step is handed on to the policy.
save_fn_PassingLastSaved(step, last_saved_step) ==
  [names |-> {"step", "last_saved_step", "evaler_summaries"},
   step |-> step,
   evaler_summaries |-> _eval_summaries,
   last_saved_step |-> last_saved_step,
   verdict |-> save_policy(cfg.save_policy, step, _eval_summaries)]

\* Mutant: should_save_fn answers yes without asking the policy's verdict.
save_fn_IgnoringPolicy(step, last_saved_step) ==
  [names |-> {"step", "evaler_summaries"},
   step |-> step,
   evaler_summaries |-> _eval_summaries,
   last_saved_step |-> NoStep,
   verdict |-> TRUE]

\* save_fn_with_summaries(step, last_saved_step): the should_save_fn handed to
\* the manager.  It drops last_saved_step and calls the policy with the step
\* and the side-channel field.  The result records the keyword arguments the
\* policy received and its verdict.
save_fn_with_summaries(step, last_saved_step) ==
  [names |-> {"step", "evaler_summaries"},
   step |-> step,
   evaler_summaries |-> _eval_summaries,
   last_saved_step |-> NoStep,
   verdict |-> save_policy(cfg.save_policy, step, _eval_summaries)]

\* Mutant: the reset sits after the try block instead of in a finally clause.
SummariesAfterSave_OnSuccessOnly(cur, exc) == IF exc = "none" THEN None ELSE cur

\* The value of self._eval_summaries when save() is left with outcome exc
\* ("none" for a normal return): the finally clause resets it on every path.
SummariesAfterSave(cur, exc) == None

\* Mutant: the argument is stored as it came, None included.
SummariesAtEntry_NoDefault(evaler_summaries) == evaler_summaries

\* evaler_summaries or {}, deep-copied.
SummariesAtEntry(evaler_summaries) ==
  IF evaler_summaries.isNone \/ evaler_summaries.d = {} THEN Dict({})
  ELSE Dict(evaler_summaries.d)

Idle(t) == pc[t] = "idle"

\* The training loop calls save(step=..., state=..., evaler_summaries=...)
\* with a step larger than every earlier one; line 206 builds the index.
SaveCall(t, step, state, es) ==
  /\ ~exited
  /\ Idle(t)
  /\ step > maxCalled
  /\ pc' = [pc EXCEPT ![t] = "assert"]
  /\ call' = [call EXCEPT ![t] = [step |-> step, state |-> state,
                                  evaler_summaries |-> es,
                                  spec |-> GetSpec(step, state), exc |-> "none",
                                  policy |-> NoPolicyCall]]
  /\ maxCalled' = step
  /\ UNCHANGED << hvars, cfg, trainState, _eval_summaries, lastSave, dirs, inflight, pending, asyncError,
                  toDelete, committedLog, preemptAt, exited >>
  /\ rst' = NoRestore

\* Line 207: assert self._eval_summaries is None.  The AssertionError is
\* raised before the try block, so no cleanup runs.
SaveAssert(t) ==
  /\ ~exited
  /\ pc[t] = "assert"
  /\ IF _eval_summaries = None
     THEN /\ pc' = [pc EXCEPT ![t] = "set"]
          /\ UNCHANGED << call, lastSave >>
     ELSE /\ pc' = [pc EXCEPT ![t] = "idle"]
          /\ call' = [call EXCEPT ![t] = NoCall]
          /\ lastSave' = [lastSave EXCEPT ![t] =
                            [step |-> call[t].step, outcome |-> "AssertionError",
                             verdict |-> "none"]]
  /\ UNCHANGED << hvars, cfg, trainState, _eval_summaries, maxCalled, dirs, inflight, pending, asyncError,
                  toDelete, committedLog, preemptAt, exited >>
  /\ rst' = NoRestore

\* Line 208: self._eval_summaries = copy.deepcopy(evaler_summaries or {}).
SaveSetSummaries(t) ==
  /\ ~exited
  /\ pc[t] = "set"
  /\ _eval_summaries' = SummariesAtEntry(call[t].evaler_summaries)
  /\ pc' = [pc EXCEPT ![t] = "should_save"]
  /\ UNCHANGED << hvars, cfg, trainState, call, lastSave, maxCalled, dirs, inflight, pending, asyncError,
                  toDelete, committedLog, preemptAt, exited >>
  /\ rst' = NoRestore

\* self._manager.save(...), first half: the manager decides whether the step
\* is saved.  A step at a preemption sync point is saved whatever the policy
\* says (the comment at lines 142-144); otherwise should_save_fn decides.
ManagerShouldSave(t) ==
  /\ ~exited
  /\ pc[t] = "should_save"
  /\ IF reached_preemption(call[t].step)
     THEN /\ pc' = [pc EXCEPT ![t] = "dispatch"]
          /\ UNCHANGED call
     ELSE LET c == save_fn_with_summaries(call[t].step, latest_step) IN
          /\ call' = [call EXCEPT ![t].policy = c]
          /\ pc' = [pc EXCEPT ![t] = IF c.verdict THEN "dispatch" ELSE "check_preempt"]
  /\ UNCHANGED << hvars, cfg, trainState, _eval_summaries, lastSave, maxCalled, dirs, inflight,
                  pending, asyncError, toDelete, committedLog, preemptAt, exited >>
  /\ rst' = NoRestore

\* Mutant: a new save is dispatched while the previous one is still running.
PriorSaveFinished_NoWait == TRUE

\* The manager waits for the previous asynchronous save before it starts the
\* next one ("save() waits for prior serialization to finish", line 210).
PriorSaveFinished == inflight = {}

\* The step directory as the manager creates it: under a tmp name where the
\* backend renames atomically, under its final name otherwise.
NewDir == [NoDir EXCEPT !.name = IF cfg.backend = "rename" THEN "tmp" ELSE "final"]

\* self._manager.save(...), second half: once the prior save has finished,
\* report its failure if it failed, else create the step directory and hand
\* the index and the state to the background save.
ManagerDispatch(t) ==
  /\ ~exited
  /\ pc[t] = "dispatch"
  /\ PriorSaveFinished
  /\ IF asyncError
     THEN /\ asyncError' = FALSE
          /\ call' = [call EXCEPT ![t].exc = "Exception"]
          /\ pc' = [pc EXCEPT ![t] = "finally"]
          /\ UNCHANGED << dirs, inflight, pending >>
     ELSE /\ dirs' = [dirs EXCEPT ![call[t].step] = NewDir]
          /\ inflight' = inflight \cup {call[t].step}
          /\ pending' = [pending EXCEPT ![call[t].step] =
                            [index |-> call[t].spec, state |-> call[t].state]]
          /\ pc' = [pc EXCEPT ![t] = "check_preempt"]
          /\ UNCHANGED << asyncError, call >>
  /\ UNCHANGED << hvars, cfg, trainState, _eval_summaries, lastSave, maxCalled, toDelete,
                  committedLog, preemptAt, exited >>
  /\ rst' = NoRestore

\* self._manager.save(...) raises (an exception of the manager itself).
ManagerSaveRaises(t) ==
  /\ ~exited
  /\ pc[t] = "dispatch"
  /\ call' = [call EXCEPT ![t].exc = "Exception"]
  /\ pc' = [pc EXCEPT ![t] = "finally"]
  /\ UNCHANGED << hvars, cfg, trainState, _eval_summaries, lastSave, maxCalled, dirs, inflight,
                  pending, asyncError, toDelete, committedLog, preemptAt,
                  exited >>
  /\ rst' = NoRestore

\* Mutant: the wait and the SystemExit are not under the if.
SaveCheckPreemption_NoIf(t) ==
  /\ ~exited
  /\ pc[t] = "check_preempt"
  /\ pc' = [pc EXCEPT ![t] = "wait"]
  /\ UNCHANGED << hvars, cfg, trainState, _eval_summaries, call, lastSave, maxCalled, dirs,
                  inflight, pending, asyncError, toDelete, committedLog, preemptAt,
                  exited >>
  /\ rst' = NoRestore

\* Line 225: if self._manager.reached_preemption(step).
SaveCheckPreemption(t) ==
  /\ ~exited
  /\ pc[t] = "check_preempt"
  /\ pc' = [pc EXCEPT ![t] = IF reached_preemption(call[t].step) THEN "wait" ELSE "finally"]
  /\ UNCHANGED << hvars, cfg, trainState, _eval_summaries, call, lastSave, maxCalled, dirs, inflight,
                  pending, asyncError, toDelete, committedLog, preemptAt,
                  exited >>
  /\ rst' = NoRestore

\* Mutant: the preemption path does not wait before it exits.
wait_until_finished_Skipped == TRUE

\* self._manager.wait_until_finished() returns once no save is in flight.
wait_until_finished == inflight = {}

\* Lines 226-227: self._manager.wait_until_finished(), which returns once no
\* save is in flight and re-raises a background failure; then SystemExit.
SaveWaitUntilFinished(t) ==
  /\ ~exited
  /\ pc[t] = "wait"
  /\ wait_until_finished
  /\ IF asyncError
     THEN /\ asyncError' = FALSE
          /\ call' = [call EXCEPT ![t].exc = "Exception"]
     ELSE /\ call' = [call EXCEPT ![t].exc = "SystemExit"]
          /\ UNCHANGED asyncError
  /\ pc' = [pc EXCEPT ![t] = "finally"]
  /\ UNCHANGED << hvars, cfg, trainState, _eval_summaries, lastSave, maxCalled, dirs, inflight,
                  pending, toDelete, committedLog, preemptAt, exited >>
  /\ rst' = NoRestore

\* Lines 228-229: the finally clause, then save() is left.
SaveFinally(t) ==
  /\ ~exited
  /\ pc[t] = "finally"
  /\ _eval_summaries' = SummariesAfterSave(_eval_summaries, call[t].exc)
  /\ lastSave' = [lastSave EXCEPT ![t] =
                    [step |-> call[t].step,
                     outcome |-> IF call[t].exc = "none" THEN "return" ELSE call[t].exc,
                     verdict |-> IF call[t].policy.names = {} THEN "none"
                                 ELSE IF call[t].policy.verdict THEN "save" ELSE "skip"]]
  /\ exited' = (call[t].exc = "SystemExit")
  /\ call' = [call EXCEPT ![t] = NoCall]
  /\ pc' = [pc EXCEPT ![t] = "idle"]
  /\ UNCHANGED << hvars, cfg, trainState, maxCalled, dirs, inflight, pending, asyncError, toDelete,
                  committedLog, preemptAt >>
  /\ rst' = NoRestore

\* ------------------------------------------- the manager's background work
\* The running save of step s writes the index artifact (JSON) into the step
\* directory.
BgWriteIndex(s) ==
  /\ ~exited
  /\ s \in inflight
  /\ ~dirs[s].hasIndex
  /\ dirs' = [dirs EXCEPT ![s].hasIndex = TRUE,
                          ![s].index = JsonRoundTrip(pending[s].index)]
  /\ UNCHANGED << hvars, cfg, trainState, _eval_summaries, pc, call, lastSave, maxCalled,
                  inflight, pending, asyncError, toDelete, committedLog,
                  preemptAt, exited >>
  /\ rst' = NoRestore

\* The running save of step s writes the state artifact, after the index.
BgWriteState(s) ==
  /\ ~exited
  /\ s \in inflight
  /\ dirs[s].hasIndex
  /\ ~dirs[s].hasState
  /\ dirs' = [dirs EXCEPT ![s].hasState = TRUE, ![s].tree = pending[s].state]
  /\ UNCHANGED << hvars, cfg, trainState, _eval_summaries, pc, call, lastSave, maxCalled,
                  inflight, pending, asyncError, toDelete, committedLog,
                  preemptAt, exited >>
  /\ rst' = NoRestore

\* The steps of S that are not among its k largest.
OldestBeyond(S, k) == {s \in S : Cardinality({x \in S : x > s}) >= k}

\* The commit marker of the backend: the rename out of the tmp name, or the
\* commit_success.txt file.
CommitDir(d) ==
  IF cfg.backend = "rename" THEN [d EXCEPT !.name = "final"]
  ELSE [d EXCEPT !.marker = TRUE]

\* Both artifacts of step s are written: the step is committed, and the
\* checkpoints beyond max_to_keep are deleted -- queued for the background
\* deletion when enable_background_delete is set, removed on the spot if not.
BgCommit(s) ==
  /\ ~exited
  /\ s \in inflight
  /\ dirs[s].hasIndex /\ dirs[s].hasState
  /\ committedLog' = Append(committedLog, s)
  /\ LET old == OldestBeyond((checkpoint_paths \cup {s}) \ toDelete, max_to_keep) IN
     IF enable_background_delete
     THEN /\ dirs' = [dirs EXCEPT ![s] = CommitDir(dirs[s])]
          /\ toDelete' = toDelete \cup old
     ELSE /\ dirs' = [x \in Steps |-> IF x \in old THEN NoDir
                                      ELSE IF x = s THEN CommitDir(dirs[s])
                                      ELSE dirs[x]]
          /\ UNCHANGED toDelete
  /\ inflight' = inflight \ {s}
  /\ pending' = [pending EXCEPT ![s] = NoPending]
  /\ UNCHANGED << hvars, cfg, trainState, _eval_summaries, pc, call, lastSave, maxCalled,
                  asyncError, preemptAt, exited >>
  /\ rst' = NoRestore

\* The running save of step s fails: the step directory is abandoned
\* uncommitted, with whatever was written, and the failure is reported at the
\* next wait.
BgFail(s) ==
  /\ ~exited
  /\ s \in inflight
  /\ inflight' = inflight \ {s}
  /\ pending' = [pending EXCEPT ![s] = NoPending]
  /\ dirs' = [dirs EXCEPT ![s].failed = TRUE]
  /\ asyncError' = TRUE
  /\ UNCHANGED << hvars, cfg, trainState, _eval_summaries, pc, call, lastSave, maxCalled,
                  toDelete, committedLog, preemptAt, exited >>
  /\ rst' = NoRestore

\* Background deletion (enable_background_delete=True) removes one queued
\* checkpoint.
BgDelete(s) ==
  /\ ~exited
  /\ s \in toDelete
  /\ dirs' = [dirs EXCEPT ![s] = NoDir]
  /\ toDelete' = toDelete \ {s}
  /\ UNCHANGED << hvars, cfg, trainState, _eval_summaries, pc, call, lastSave, maxCalled, inflight,
                  pending, asyncError, committedLog, preemptAt,
                  exited >>
  /\ rst' = NoRestore

\* A preemption signal arrives; its sync point is the step after the last one
\* the training loop has reached.
Preempt(s) ==
  /\ ~exited
  /\ preemptAt = NoStep
  /\ s = maxCalled + 1
  /\ preemptAt' = s
  /\ UNCHANGED << hvars, cfg, trainState, _eval_summaries, pc, call, lastSave, maxCalled, dirs,
                  inflight, pending, asyncError, toDelete, committedLog,
                  exited >>
  /\ rst' = NoRestore

\* ----------------------------------------------------------- restore()
\* The errors self._manager.restore can raise for a step it cannot read.
\* With step=None and no committed checkpoint it is the TypeError of the
\* comment at lines 262-263 (None formatted as a step directory).  For an
\* explicit step the source does not fix the kind of error.
ManagerRestoreErrors(step) ==
  IF step = NoStep THEN {"TypeError"} ELSE {"TypeError", "NotFoundError"}

\* self._manager.restore(step, args=Composite(index=JsonRestore, state=...)):
\* reads the latest committed step when step is None.  The set of its possible
\* results: the artifacts of a committed step, or one of the errors.
ManagerRestore(step) ==
  LET s == IF step = NoStep THEN latest_step ELSE step IN
  IF s = NoStep \/ s \notin checkpoint_paths
  THEN {[raised |-> e, index |-> << >>, state |-> << >>] : e \in ManagerRestoreErrors(step)}
  ELSE {[raised |-> "none", index |-> dirs[s].index, state |-> dirs[s].tree]}

\* check_state_structure(ckpt_structure, target_structure, validation): both
\* structures are read as (key, value) pairs.
PairSet(index) == {<< index[i].k, index[i].v >> : i \in 1..Len(index)}
check_state_structure(ckpt_structure, target_structure, validation) ==
  IF validation = "EXACT"
  THEN PairSet(ckpt_structure) = PairSet(target_structure)
  ELSE PairSet(target_structure) \subseteq PairSet(ckpt_structure)

\* Lines 272-277: the step of the first ("step", v) entry of the index.
RECURSIVE StepOfIndex(_, _)
StepOfIndex(index, i) ==
  IF i > Len(index) THEN NoStep
  ELSE IF index[i].k = "step" THEN index[i].v.lit
  ELSE StepOfIndex(index, i + 1)

\* Mutant: restore() returns without the structure check.
ValidateRestored_Skipped(restored_index, step, state) == TRUE

\* Lines 279-284: the structure check restore() runs before it returns.
ValidateRestored(restored_index, step, state) ==
  check_state_structure(restored_index, GetSpec(step, state), cfg.validation_type)

\* Mutant: the TypeError is turned into a ValueError whatever the step.
OnTypeError_AlwaysRaise(step) == "ValueError"

\* Lines 264-267: what restore() does with a TypeError of the manager.
OnTypeError(step) == IF step # NoStep THEN "ValueError" ELSE "nothing"

\* Lines 246-247 and 78-86: an iterator leaf of the template goes to the
\* manager as RestoreArgs(item=x), and the handler's deserialize restores that
\* very object from the leaf's directory.  The paths of the template's
\* iterators a manager.restore of the persisted tree has restored in place.
DeserializedIterators(state, persisted) ==
  {state[i].path : i \in {j \in 1..Len(state) :
      /\ state[j].leaf.kind = "iterator"
      /\ \E k \in 1..Len(persisted) :
           persisted[k].path = state[j].path /\ persisted[k].leaf.kind = "iterator"}}

\* Mutant: the structure is checked first, and leaves are read only if it fits.
InPlaceAtOutcome_ValidateFirst(state, persisted, valid) ==
  IF valid THEN DeserializedIterators(state, persisted) ELSE {}

\* The iterators restored in place when restore() is left, whether the
\* structure check of lines 279-284 passed (valid) or raised: manager.restore
\* at line 253 has returned before the check starts.
InPlaceAtOutcome(state, persisted, valid) == DeserializedIterators(state, persisted)

\* restore(step=..., state=...), lines 253-285.
RestoreResult(step, state, composite_state, fresh) ==
  LET base == [step |-> step, template |-> state, outcome |-> "none",
               rstep |-> NoStep, state |-> << >>, found |-> FALSE,
               index |-> << >>, fresh |-> fresh, inPlace |-> {}]
  IN
  IF composite_state.raised = "TypeError"
  THEN IF OnTypeError(step) = "nothing"
       THEN [base EXCEPT !.outcome = "nothing", !.state = state]
       ELSE [base EXCEPT !.outcome = OnTypeError(step)]
  ELSE IF composite_state.raised # "none"
  THEN [base EXCEPT !.outcome = composite_state.raised]
  ELSE LET restored_index == composite_state.index
           rstep == IF step = NoStep THEN StepOfIndex(restored_index, 1) ELSE step
           valid == ValidateRestored(restored_index, rstep, state)
           inPlace == InPlaceAtOutcome(state, composite_state.state, valid)
       IN
       IF valid
       THEN [base EXCEPT !.outcome = "ok", !.rstep = rstep, !.found = TRUE,
                         !.index = restored_index, !.state = composite_state.state,
                         !.inPlace = inPlace]
       ELSE [base EXCEPT !.outcome = "StructureMismatch", !.rstep = rstep,
                         !.found = TRUE, !.index = restored_index,
                         !.inPlace = inPlace]

\* restore() is called and returns: by the training loop's thread between two
\* save() calls, or by a fresh process after the exit.  rst holds the result
\* of the restore() that has just returned; the caller takes it before it
\* calls restore() again, and any other step forgets it.
Restore(step, state) ==
  /\ exited \/ \A t \in Threads : Idle(t)
  /\ rst = NoRestore
  /\ \E composite_state \in ManagerRestore(step) :
       rst' = RestoreResult(step, state, composite_state, exited)
  /\ UNCHANGED << hvars, cfg, trainState, _eval_summaries, pc, call, lastSave, maxCalled, dirs,
                  inflight, pending, asyncError, toDelete, committedLog,
                  preemptAt, exited >>

\* ------------------------------------------------- the handler registry
\* Mutant: the module registers its handler without override.
ImportOverride_False == FALSE

\* Line 94: register_type_handler(tf.data.Iterator, _TfIteratorHandler(),
\* override=True) -- the override argument.
ImportOverride == TRUE

\* ocp.type_handlers.register_type_handler(ty, handler, override): a category
\* that has a handler is left alone and the call fails unless override is set.
RegisterFails(category, override) == registry[category] # NoHandler /\ ~override
register_type_handler(category, handler, override) ==
  /\ registry' = IF RegisterFails(category, override) THEN registry
                 ELSE [registry EXCEPT ![category] = handler]
  /\ lastOverride' = IF override THEN [lastOverride EXCEPT ![category] = handler]
                     ELSE lastOverride
  /\ regResult' = [category |-> category, handler |-> handler, override |-> override,
                   raised |-> IF RegisterFails(category, override)
                              THEN "AlreadyRegistered" ELSE "none",
                   before |-> registry[category]]

\* The process imports axlearn.common.checkpointer_orbax: line 94 runs once.
ImportModule ==
  /\ ~imported
  /\ imported' = TRUE
  /\ register_type_handler("tf.data.Iterator", TfIteratorHandler, ImportOverride)
  /\ UNCHANGED << cvars, hcall, pool, task, dirExists, startLog, restored >>

\* Some other module of the process registers a handler, before or after the
\* import.
RegisterOther(category, handler, override) ==
  /\ register_type_handler(category, handler, override)
  /\ UNCHANGED << cvars, imported, hcall, pool, task, dirExists, startLog, restored >>

\* The registry and the handler are process-wide and do not read the
\* checkpointer: their specifications run beside one idle checkpointer.
OneCheckpointer ==
  /\ CheckpointerInit
  /\ cfg = [keep_last_n |-> MaxKeep, validation_type |-> "EXACT",
            save_policy |-> "even_steps", backend |-> "rename"]
  /\ trainState = AllTrees[1]

\* A process before any registration.
InitRegistry ==
  /\ OneCheckpointer
  /\ imported = FALSE
  /\ registry = [c \in Categories |-> NoHandler]
  /\ lastOverride = registry
  /\ HandlerIdle

NextRegistry ==
  \/ ImportModule
  \/ \E c \in Categories, h \in OtherHandlers, o \in BOOLEAN : RegisterOther(c, h, o)

SpecRegistry == InitRegistry /\ [][NextRegistry]_vars

\* --------------------------------------------------- _TfIteratorHandler
\* futures.ThreadPoolExecutor(max_workers=1), lines 62 and 78.
max_workers == 1

\* zip(values, infos) and zip(args, infos) stop at the shorter sequence.
ZipLen(a, b) == IF a < b THEN a ELSE b
Pairs == 1..ZipLen(IF hcall.op = "serialize" THEN hcall.nValues ELSE Len(hcall.args),
                   hcall.nInfos)

\* The restore descriptors a caller passes: a RestoreArgs(item=iterator), or
\* None in the place of one.
ArgKinds == {"RestoreArgs", "None"}
ArgSeqs == UNION {[1..n -> ArgKinds] : n \in 0..MaxPairs}

\* The handler is a global instance; orbax awaits one call before the next.
HandlerFree ==
  /\ hcall.phase \in {"idle", "returned", "raised"}
  /\ pool.queue = << >> /\ pool.running = {}

OpenPool == [open |-> TRUE, queue |-> << >>, running |-> {}, shutdown |-> FALSE]

\* Mutant: the routine is submitted before its directory is made.
SerializeLoopBody_SubmitFirst == << "submit", "mkdir" >>

\* Lines 63-68: the statements of the loop body, in order.
SerializeLoopBody == << "mkdir", "submit" >>

\* serialize(values, infos, args) is called; line 62 creates the executor.
\* exists: which info.path directories are there already; parents: which of
\* them have their parent directory.
SerializeCall(nValues, nInfos, exists, parents) ==
  /\ HandlerFree
  /\ \A i \in PairIds : exists[i] => parents[i]
  /\ hcall' = [NoHandlerCall EXCEPT !.op = "serialize", !.nValues = nValues,
                                    !.nInfos = nInfos, !.parents = parents,
                                    !.i = 1, !.stmt = 1,
                                    !.phase = IF ZipLen(nValues, nInfos) = 0
                                              THEN "exit" ELSE "loop"]
  /\ pool' = OpenPool
  /\ task' = [i \in PairIds |-> NoTask]
  /\ dirExists' = exists
  /\ startLog' = << >>
  /\ restored' = {}
  /\ UNCHANGED << cvars, registry, lastOverride, regResult, imported >>

\* The loop's position after the statement at hcall.stmt of pair hcall.i.
AfterStatement ==
  IF hcall.stmt < Len(SerializeLoopBody)
  THEN [hcall EXCEPT !.stmt = hcall.stmt + 1]
  ELSE [hcall EXCEPT !.stmt = 1, !.i = hcall.i + 1,
                     !.phase = IF hcall.i + 1 \in Pairs THEN "loop" ELSE "exit"]

\* Line 65: info.path.mkdir(exist_ok=True), on the calling thread.  Without
\* the parent directory it raises, and the exception leaves the with block.
SerMkdir ==
  /\ hcall.op = "serialize" /\ hcall.phase = "loop"
  /\ SerializeLoopBody[hcall.stmt] = "mkdir"
  /\ IF dirExists[hcall.i] \/ hcall.parents[hcall.i]
     THEN /\ dirExists' = [dirExists EXCEPT ![hcall.i] = TRUE]
          /\ hcall' = AfterStatement
     ELSE /\ hcall' = [hcall EXCEPT !.exc = "FileNotFoundError", !.phase = "exit"]
          /\ UNCHANGED dirExists
  /\ UNCHANGED << cvars, registry, lastOverride, regResult, imported, pool, task,
                  startLog, restored >>

\* Lines 66-68: futs.append(executor.submit(partial(save_tf_savables, value,
\* dir=info.path))).
SerSubmit ==
  /\ hcall.op = "serialize" /\ hcall.phase = "loop"
  /\ SerializeLoopBody[hcall.stmt] = "submit"
  /\ pool' = [pool EXCEPT !.queue = Append(pool.queue, hcall.i)]
  /\ task' = [task EXCEPT ![hcall.i].status = "queued"]
  /\ hcall' = [AfterStatement EXCEPT !.futs = Append(hcall.futs, hcall.i)]
  /\ UNCHANGED << cvars, registry, lastOverride, regResult, imported, dirExists,
                  startLog, restored >>

\* deserialize(infos, args) is called.
DeserializeCall(argsNone, args, nInfos) ==
  /\ HandlerFree
  /\ argsNone => args = << >>
  /\ hcall' = [NoHandlerCall EXCEPT !.op = "deserialize", !.argsNone = argsNone,
                                    !.args = args, !.nInfos = nInfos, !.i = 1,
                                    !.phase = "check"]
  /\ pool' = NoPool
  /\ task' = [i \in PairIds |-> NoTask]
  /\ dirExists' = [i \in PairIds |-> TRUE]
  /\ startLog' = << >>
  /\ restored' = {}
  /\ UNCHANGED << cvars, registry, lastOverride, regResult, imported >>

\* Lines 76-78: if args is None: raise ValueError(...); else the executor is
\* created.
DesCheckArgs ==
  /\ hcall.op = "deserialize" /\ hcall.phase = "check"
  /\ IF hcall.argsNone
     THEN /\ hcall' = [hcall EXCEPT !.exc = "ValueError", !.phase = "raised"]
          /\ UNCHANGED pool
     ELSE /\ hcall' = [hcall EXCEPT !.phase = IF Pairs = {} THEN "exit" ELSE "loop"]
          /\ pool' = OpenPool
  /\ UNCHANGED << cvars, registry, lastOverride, regResult, imported, task, dirExists,
                  startLog, restored >>

\* Lines 79-85, one element of the list comprehension: arg.item is read --
\* an AttributeError when arg is None -- and run_in_executor hands
\* restore_tf_savables(arg.item, dir=info.path) to the executor at once.
DesSubmit ==
  /\ hcall.op = "deserialize" /\ hcall.phase = "loop"
  /\ IF hcall.args[hcall.i] = "None"
     THEN /\ hcall' = [hcall EXCEPT !.exc = "AttributeError", !.phase = "exit"]
          /\ UNCHANGED << pool, task >>
     ELSE /\ pool' = [pool EXCEPT !.queue = Append(pool.queue, hcall.i)]
          /\ task' = [task EXCEPT ![hcall.i].status = "queued"]
          /\ hcall' = [hcall EXCEPT !.futs = Append(hcall.futs, hcall.i),
                                    !.i = hcall.i + 1,
                                    !.phase = IF hcall.i + 1 \in Pairs
                                              THEN "loop" ELSE "exit"]
  /\ UNCHANGED << cvars, registry, lastOverride, regResult, imported, dirExists,
                  startLog, restored >>

\* A free worker thread of the executor takes the oldest queued routine.
WorkerStart(i) ==
  /\ pool.queue # << >> /\ Head(pool.queue) = i
  /\ Cardinality(pool.running) < max_workers
  /\ pool' = [pool EXCEPT !.queue = Tail(pool.queue), !.running = pool.running \cup {i}]
  /\ task' = [task EXCEPT ![i] = [status |-> "running", dirAtStart |-> dirExists[i],
                                  thread |-> "worker"]]
  /\ startLog' = Append(startLog, i)
  /\ UNCHANGED << cvars, registry, lastOverride, regResult, imported, hcall, dirExists,
                  restored >>

\* The routine on the worker ends: save_tf_savables has written the
\* iterator, or restore_tf_savables has restored arg.item in place; or it
\* raised, and the exception is held by the future.
WorkerFinish(i, ok) ==
  /\ i \in pool.running
  /\ pool' = [pool EXCEPT !.running = pool.running \ {i}]
  /\ task' = [task EXCEPT ![i].status = IF ok THEN "done" ELSE "failed"]
  /\ restored' = IF ok /\ hcall.op = "deserialize" THEN restored \cup {i} ELSE restored
  /\ UNCHANGED << cvars, registry, lastOverride, regResult, imported, hcall, dirExists,
                  startLog >>

\* Mutant: the executor is shut down without waiting for its routines.
ExecutorExitWaits_NoWait == TRUE

\* The with statement of lines 62 and 78 is left, by the end of its body or
\* by an exception: executor.shutdown(wait=True) returns once every submitted
\* routine has run.
ExecutorExitWaits == pool.queue = << >> /\ pool.running = {}

\* Leaving the with block.  serialize then returns futs (line 69) or the
\* exception goes on; deserialize goes on to line 86.
ExecutorExit ==
  /\ hcall.phase = "exit"
  /\ ExecutorExitWaits
  /\ pool' = [pool EXCEPT !.open = FALSE, !.shutdown = TRUE]
  /\ hcall' = [hcall EXCEPT !.phase = IF hcall.exc # "none" THEN "raised"
                                      ELSE IF hcall.op = "serialize" THEN "returned"
                                      ELSE "gather"]
  /\ UNCHANGED << cvars, registry, lastOverride, regResult, imported, task, dirExists,
                  startLog, restored >>

\* Line 86: return await asyncio.gather(*futs) -- the first exception held
\* by a future is raised, else the restored iterators are returned.
DesGather ==
  /\ hcall.phase = "gather"
  /\ hcall' = IF \E k \in 1..Len(hcall.futs) : task[hcall.futs[k]].status = "failed"
              THEN [hcall EXCEPT !.exc = "RestoreError", !.phase = "raised"]
              ELSE [hcall EXCEPT !.phase = "returned"]
  /\ UNCHANGED << cvars, registry, lastOverride, regResult, imported, pool, task,
                  dirExists, startLog, restored >>

InitHandler == OneCheckpointer /\ HandlerInit

NextHandler ==
  \/ \E nValues, nInfos \in 0..MaxPairs, exists, parents \in [PairIds -> BOOLEAN] :
       SerializeCall(nValues, nInfos, exists, parents)
  \/ SerMkdir
  \/ SerSubmit
  \/ \E argsNone \in BOOLEAN, args \in ArgSeqs, nInfos \in 0..MaxPairs :
       DeserializeCall(argsNone, args, nInfos)
  \/ DesCheckArgs
  \/ DesSubmit
  \/ \E i \in PairIds : WorkerStart(i)
  \/ \E i \in PairIds, ok \in BOOLEAN : WorkerFinish(i, ok)
  \/ ExecutorExit
  \/ DesGather

SpecHandler == InitHandler /\ [][NextHandler]_vars

\* ------------------------------------------------------------------ Next
\* The training loop is one thread, and it calls save() one call at a time.
MainThread == 1

Next ==
  \/ \E step \in Steps, es \in SummaryArgs :
       SaveCall(MainThread, step, trainState, es)
  \/ \E t \in Threads : SaveAssert(t)
  \/ \E t \in Threads : SaveSetSummaries(t)
  \/ \E t \in Threads : ManagerShouldSave(t)
  \/ \E t \in Threads : ManagerDispatch(t)
  \/ \E t \in Threads : ManagerSaveRaises(t)
  \/ \E t \in Threads : SaveCheckPreemption(t)
  \/ \E t \in Threads : SaveWaitUntilFinished(t)
  \/ \E t \in Threads : SaveFinally(t)
  \/ \E s \in Steps : BgWriteIndex(s)
  \/ \E s \in Steps : BgWriteState(s)
  \/ \E s \in Steps : BgCommit(s)
  \/ \E s \in Steps : BgFail(s)
  \/ \E s \in Steps : BgDelete(s)
  \/ \E s \in Steps : Preempt(s)
  \/ \E step \in Steps \cup {NoStep}, state \in TreeSet : Restore(step, state)

Spec == Init /\ [][Next]_vars

\* save() called from several threads on one checkpointer: nothing in the
\* class takes a lock, so the statements of overlapping calls interleave.
NextConc ==
  \/ \E t \in Threads, step \in Steps, es \in SummaryArgs :
       SaveCall(t, step, trainState, es)
  \/ \E t \in Threads : SaveAssert(t)
  \/ \E t \in Threads : SaveSetSummaries(t)
  \/ \E t \in Threads : ManagerShouldSave(t)
  \/ \E t \in Threads : ManagerDispatch(t)
  \/ \E t \in Threads : ManagerSaveRaises(t)
  \/ \E t \in Threads : SaveCheckPreemption(t)
  \/ \E t \in Threads : SaveWaitUntilFinished(t)
  \/ \E t \in Threads : SaveFinally(t)
  \/ \E s \in Steps : BgWriteIndex(s)
  \/ \E s \in Steps : BgWriteState(s)
  \/ \E s \in Steps : BgCommit(s)
  \/ \E s \in Steps : BgFail(s)
  \/ \E s \in Steps : BgDelete(s)
  \/ \E s \in Steps : Preempt(s)

SpecConc == Init /\ [][NextConc]_vars

\* ================================================================ claims
Range(seq) == {seq[i] : i \in 1..Len(seq)}
Min(a, b) == IF a < b THEN a ELSE b

\* C1: whenever no save() is running or a save() is at its first statement,
\* self._eval_summaries is None -- whichever way the previous save() ended
\* (normal return, an exception of the manager, SystemExit).
C1_SummariesCleared ==
  (\A t \in Threads : pc[t] \in {"idle", "assert"}) => _eval_summaries = None

\* A save() ended with an exception of the manager and the next save() has
\* started.
C1_Witness ==
  /\ pc[MainThread] = "assert"
  /\ lastSave[MainThread].outcome = "Exception"
  /\ _eval_summaries = None

\* C2: a save() that raises SystemExit for a step has that step committed with
\* both artifacts written, and a fresh process that restores the step with the
\* same state structure succeeds.
C2_ExitAfterCommit ==
  \A t \in Threads :
    LET s == IF pc[t] = "finally" THEN call[t].step ELSE lastSave[t].step
        exits == \/ pc[t] = "finally" /\ call[t].exc = "SystemExit"
                 \/ pc[t] = "idle" /\ lastSave[t].outcome = "SystemExit"
    IN exits =>
         /\ s \in Range(committedLog)
         /\ s \in checkpoint_paths
         /\ dirs[s].hasIndex /\ dirs[s].hasState
         /\ s \notin inflight
         /\ (rst.fresh /\ rst.step = s /\ rst.template = trainState)
              => (rst.outcome = "ok" /\ rst.rstep = s)

\* The process has exited on preemption and a fresh process has restored the
\* step it exited at.
C2_Witness ==
  /\ exited
  /\ lastSave[MainThread].outcome = "SystemExit"
  /\ rst.fresh /\ rst.step = lastSave[MainThread].step
  /\ rst.template = trainState /\ rst.outcome = "ok"

C4_ListedOnlyCommitted ==
  \A s \in checkpoint_paths :
     /\ s \in Range(committedLog)
     /\ s \notin inflight
     /\ ~dirs[s].failed
     /\ dirs[s].hasIndex /\ dirs[s].hasState

\* A directory that holds an index but is not committed exists next to a
\* listed checkpoint, and is not listed.
C4_Witness ==
  \E s, c \in Steps :
     /\ dirs[s].name # "none" /\ dirs[s].hasIndex
     /\ s \notin Range(committedLog)
     /\ s \notin checkpoint_paths
     /\ c \in checkpoint_paths

\* C5: restore(step=None, state=template) with no committed checkpoint under
\* the root returns (None, template).
C5_NothingToRestore ==
  (rst.outcome # "none" /\ rst.step = NoStep /\ checkpoint_paths = {})
    => (rst.outcome = "nothing" /\ rst.rstep = NoStep /\ rst.state = rst.template)

\* restore(None, template) has returned on a root that holds only an
\* uncommitted directory with an index.
C5_Witness ==
  /\ rst.outcome = "nothing" /\ rst.step = NoStep
  /\ checkpoint_paths = {}
  /\ \E s \in Steps : dirs[s].name # "none" /\ dirs[s].hasIndex
  /\ rst.state = rst.template

C7_ExactlyMinRemain ==
  Cardinality(checkpoint_paths) = Min(Len(committedLog), cfg.keep_last_n)

\* The min(N, k) most recently committed steps.
MostRecent ==
  LET N == Len(committedLog) IN
  {committedLog[i] : i \in (N - Min(N, cfg.keep_last_n) + 1)..N}

\* C7 (amended): the min(N, k) most recent commits are always there; what is
\* listed beyond them is exactly what is queued for background deletion, so
\* once that queue is empty exactly min(N, k) remain; no step in flight is
\* queued for deletion or deleted.
C7_RetentionOnceDeleted ==
  /\ MostRecent \subseteq checkpoint_paths
  /\ checkpoint_paths \ toDelete = MostRecent
  /\ toDelete = {} =>
       /\ checkpoint_paths = MostRecent
       /\ Cardinality(checkpoint_paths) = Min(Len(committedLog), cfg.keep_last_n)
  /\ toDelete \cap inflight = {}
  /\ \A s \in inflight : dirs[s].name # "none"

\* Two commits with keep_last_n = 1, the older one deleted.
C7_Witness ==
  /\ Len(committedLog) = 2
  /\ cfg.keep_last_n = 1
  /\ toDelete = {}
  /\ checkpoint_paths = {committedLog[2]}
  /\ dirs[committedLog[1]].name = "none"

\* The index restore() expects for the call that has just returned.
ExpectedIndex == GetSpec(rst.rstep, rst.template)

\* C8: restore() returns a state only when the persisted index passed the
\* check against the index of the template under cfg.validation_type; under
\* EXACT any difference in the (path, descriptor) pairs of a checkpoint that
\* was read ends in StructureMismatch, with no state returned.
C8_ReturnsOnlyValidated ==
  /\ rst.outcome = "ok" =>
       /\ rst.found
       /\ check_state_structure(rst.index, ExpectedIndex, cfg.validation_type)
  /\ (cfg.validation_type = "EXACT" /\ rst.found
        /\ PairSet(rst.index) # PairSet(ExpectedIndex))
       => (rst.outcome = "StructureMismatch" /\ rst.state = << >>)

\* Under EXACT a checkpoint was read whose index differs from the template's,
\* and restore() failed with StructureMismatch.
C8_Witness ==
  /\ cfg.validation_type = "EXACT"
  /\ rst.found
  /\ PairSet(rst.index) # PairSet(ExpectedIndex)
  /\ rst.outcome = "StructureMismatch"

\* Trees with array and literal leaves only.
NoIteratorLeaves(state) == \A i \in 1..Len(state) : state[i].leaf.kind # "iterator"

\* restore(step=s, state=T) has just returned under EXACT for a committed
\* step s that save(step=s, state=T) wrote.
RoundTripCase ==
  /\ rst.outcome # "none"
  /\ rst.step # NoStep
  /\ rst.step \in checkpoint_paths
  /\ cfg.validation_type = "EXACT"
  /\ rst.template = dirs[rst.step].tree
  /\ NoIteratorLeaves(rst.template)

\* C9 (as claimed): the round trip succeeds and the index read back equals
\* the index _get_spec builds.
C9_IndexReadBackEqual ==
  RoundTripCase =>
    /\ rst.outcome = "ok" /\ rst.rstep = rst.step
    /\ rst.index = GetSpec(rst.step, rst.template)

\* C9 (amended): the round trip succeeds and the index read back has the
\* entries of the index _get_spec builds, in the same order, each with the
\* same path and the same descriptor.
C9_IndexReadBackSameEntries ==
  RoundTripCase =>
    /\ rst.outcome = "ok" /\ rst.rstep = rst.step
    /\ Len(rst.index) = Len(GetSpec(rst.step, rst.template))
    /\ \A i \in 1..Len(rst.index) :
         /\ rst.index[i].k = GetSpec(rst.step, rst.template)[i].k
         /\ rst.index[i].v = GetSpec(rst.step, rst.template)[i].v

\* A round trip of a tree with an array and a literal leaf has succeeded.
C9_Witness ==
  /\ RoundTripCase
  /\ rst.outcome = "ok"
  /\ \E i \in 1..Len(rst.template) : rst.template[i].leaf.kind = "literal"
  /\ \E i \in 1..Len(rst.template) : rst.template[i].leaf.kind = "tensor"

\* C10 (as claimed): every invocation of the save policy receives the last
\* committed step.
C10_PolicyGetsLastSaved ==
  \A t \in Threads :
    call[t].policy.names # {} => "last_saved_step" \in call[t].policy.names

\* C10 (amended): every invocation of the save policy receives the step of
\* the running save() and the side-channel summaries, and nothing else; the
\* last saved step is dropped.
C10_PolicyGetsStepAndSummaries ==
  \A t \in Threads :
    call[t].policy.names # {} =>
      /\ call[t].policy.names = {"step", "evaler_summaries"}
      /\ call[t].policy.step = call[t].step
      /\ call[t].policy.evaler_summaries = SummariesAtEntry(call[t].evaler_summaries)
      /\ call[t].policy.last_saved_step = NoStep

\* The policy was consulted while a committed checkpoint existed, and did not
\* receive it.
C10_Witness ==
  /\ call[MainThread].policy.names # {}
  /\ latest_step # NoStep
  /\ call[MainThread].policy.last_saved_step = NoStep

\* The policy's answer for the step and summaries of thread t's save().
PolicyAnswer(t) ==
  save_policy(cfg.save_policy, call[t].step,
              IF call[t].evaler_summaries.isNone THEN Dict({}) ELSE call[t].evaler_summaries)
InManagerSaveOrAfter(t) == pc[t] \in {"check_preempt", "wait", "finally"}

C14_ExitOnlyOnPreemption ==
  \A t \in Threads :
    LET s == IF pc[t] = "finally" THEN call[t].step ELSE lastSave[t].step
        exits == \/ pc[t] = "finally" /\ call[t].exc = "SystemExit"
                 \/ pc[t] = "idle" /\ lastSave[t].outcome = "SystemExit"
    IN /\ exits =>
           /\ preemptAt # NoStep /\ s >= preemptAt
           /\ inflight = {}
           /\ \A u \in Steps :
                dirs[u].name # "none" => (IsCommitted(dirs[u]) \/ dirs[u].failed)
       /\ exited => \E u \in Threads : lastSave[u].outcome = "SystemExit"

\* An earlier save() returned and its checkpoint was committed; the save() of
\* the preemption step has raised SystemExit.
C14_Witness ==
  /\ exited
  /\ lastSave[MainThread].outcome = "SystemExit"
  /\ lastSave[MainThread].step = preemptAt
  /\ Len(committedLog) >= 2

\* C15: from line 208 to the finally clause the side channel holds the
\* summaries passed to the running save() (an empty dict for None), the
\* policy is handed exactly those with the call's step, and while no save()
\* runs the side channel holds nothing.
C15_PolicySeesOwnSummaries ==
  /\ (\A t \in Threads : Idle(t)) => _eval_summaries = None
  /\ \A t \in Threads :
       LET own == IF call[t].evaler_summaries.isNone THEN Dict({})
                  ELSE call[t].evaler_summaries
       IN /\ pc[t] \in {"should_save", "dispatch", "check_preempt", "wait", "finally"}
               => _eval_summaries = own
          /\ call[t].policy.names # {} =>
               /\ call[t].policy.evaler_summaries = own
               /\ call[t].policy.step = call[t].step

\* The previous save() was given eval summaries and the policy saved on them;
\* the running save() was given None and its policy call saw the empty dict.
C15_Witness ==
  /\ cfg.save_policy = "on_eval"
  /\ lastSave[MainThread].verdict = "save"
  /\ call[MainThread].evaler_summaries.isNone
  /\ call[MainThread].policy.names # {}
  /\ call[MainThread].policy.evaler_summaries = Dict({})
  /\ ~call[MainThread].policy.verdict

\* C16: the index save() builds has ("step", step) first and then one entry
\* per leaf in flattening order, keyed by the leaf's path: {dtype, shape} as
\* strings for a tensor, the type tag string for an iterator, the value
\* itself for anything else.
C16_IndexShape ==
  \A t \in Threads :
    ~Idle(t) =>
      LET spec == call[t].spec
          state == call[t].state
      IN /\ Len(spec) = Len(state) + 1
         /\ spec[1].k = "step" /\ spec[1].v.tag = "lit" /\ spec[1].v.lit = call[t].step
         /\ \A i \in 1..Len(state) :
              /\ spec[i + 1].k = state[i].path
              /\ spec[i + 1].container = "tuple"
              /\ state[i].leaf.kind = "tensor" =>
                   /\ spec[i + 1].v.tag = "dict"
                   /\ spec[i + 1].v.dtype = state[i].leaf.dtype
                   /\ spec[i + 1].v.shape = state[i].leaf.shape
                   /\ spec[i + 1].v.shapeType = "str"
              /\ state[i].leaf.kind = "iterator" =>
                   /\ spec[i + 1].v.tag = "str"
                   /\ spec[i + 1].v.dtype = "<class 'tf.data.Iterator'>"
              /\ state[i].leaf.kind = "literal" =>
                   /\ spec[i + 1].v.tag = "lit"
                   /\ spec[i + 1].v.lit = state[i].leaf.lit

\* A save() of a tree with a tensor and an iterator has built its index.
C16_Witness ==
  /\ pc[MainThread] = "assert"
  /\ \E i, j \in 1..Len(call[MainThread].state) :
       /\ call[MainThread].state[i].leaf.kind = "iterator"
       /\ call[MainThread].spec[i + 1].v.tag = "str"
       /\ call[MainThread].state[j].leaf.kind = "tensor"

\* C20: a restore() that found a checkpoint has read the whole of it before
\* it checks the structure: it holds the persisted index, the step it
\* resolved (the argument, or the index's step entry for None), its verdict
\* is the comparison of that index with the index built from the template and
\* the resolved step, and the template's iterators the checkpoint holds are
\* restored in place whether the comparison passes or raises.
C20_ValidationAfterDeserialization ==
  rst.found =>
    LET s == IF rst.step = NoStep THEN latest_step ELSE rst.step
        template == rst.template
    IN /\ rst.index = dirs[s].index
       /\ rst.rstep = (IF rst.step = NoStep THEN StepOfIndex(rst.index, 1) ELSE rst.step)
       /\ rst.outcome \in {"ok", "StructureMismatch"}
       /\ (rst.outcome = "ok") <=>
            check_state_structure(rst.index, GetSpec(rst.rstep, template),
                                  cfg.validation_type)
       /\ \A i \in 1..Len(template) :
            (/\ template[i].leaf.kind = "iterator"
             /\ \E k \in 1..Len(dirs[s].tree) :
                  /\ dirs[s].tree[k].path = template[i].path
                  /\ dirs[s].tree[k].leaf.kind = "iterator")
              => template[i].path \in rst.inPlace

\* restore() has raised the structure mismatch with an iterator of the
\* template already restored in place.
C20_Witness ==
  /\ rst.outcome = "StructureMismatch"
  /\ rst.inPlace # {}
  /\ rst.step = NoStep

\* Thread t's save() is past the assert of line 207.
PastCheck(t) ==
  pc[t] \in {"set", "should_save", "dispatch", "check_preempt", "wait", "finally"}

\* C12: of two overlapping save() calls at most one is past the assert of
\* line 207, and while a save() is between line 208 and its finally clause the
\* side channel holds that call's own summaries.
C12_OnlyOnePastCheck ==
  /\ \A t1, t2 \in Threads : (PastCheck(t1) /\ PastCheck(t2)) => t1 = t2
  /\ \A t \in Threads :
       pc[t] \in {"should_save", "dispatch", "check_preempt", "wait", "finally"} =>
         _eval_summaries = (IF call[t].evaler_summaries.isNone THEN Dict({})
                            ELSE call[t].evaler_summaries)

\* C13: a registration without override on a category that has a handler
\* fails with AlreadyRegistered and leaves that handler; any other
\* registration puts its handler in; and a category ever registered with
\* override -- the iterator category once the module is imported -- looks up
\* as the handler of the last such registration.
C13_RegistryOverride ==
  /\ regResult.raised = "AlreadyRegistered" =>
       /\ ~regResult.override
       /\ regResult.before # NoHandler
       /\ registry[regResult.category] = regResult.before
  /\ (regResult # NoReg /\ ~regResult.override /\ regResult.before # NoHandler) =>
       regResult.raised = "AlreadyRegistered"
  /\ (regResult # NoReg /\ regResult.override) =>
       /\ regResult.raised = "none"
       /\ registry[regResult.category] = regResult.handler
  /\ \A c \in Categories : lastOverride[c] # NoHandler => registry[c] = lastOverride[c]
  /\ imported => lastOverride["tf.data.Iterator"] # NoHandler
  /\ (imported /\ lastOverride["tf.data.Iterator"] = TfIteratorHandler) =>
       registry["tf.data.Iterator"] = TfIteratorHandler

\* Another module had the iterator category; the import replaced its handler,
\* and a later registration without override has just failed.
C13_Witness ==
  /\ imported
  /\ registry["tf.data.Iterator"] = TfIteratorHandler
  /\ regResult.raised = "AlreadyRegistered"
  /\ regResult.category = "tf.data.Iterator"

Started(i) == task[i].status \in {"running", "done", "failed"}
Finished(i) == task[i].status \in {"done", "failed"}

\* C17: when serialize returns, its result holds one future per (value,
\* info) pair of the zip, in pair order; and a save routine that has started
\* found its directory in place and runs on the executor's worker thread.
C17_OneFuturePerPair ==
  hcall.op = "serialize" =>
    /\ hcall.phase = "returned" =>
         /\ Len(hcall.futs) = ZipLen(hcall.nValues, hcall.nInfos)
         /\ \A i \in 1..Len(hcall.futs) : hcall.futs[i] = i
    /\ \A i \in PairIds :
         Started(i) => (task[i].dirAtStart /\ task[i].thread = "worker")

\* serialize has returned the futures of two pairs, and both routines have
\* run with their directories in place.
C17_Witness ==
  /\ hcall.op = "serialize" /\ hcall.phase = "returned"
  /\ Len(hcall.futs) >= 2
  /\ hcall.nValues # hcall.nInfos \/ hcall.nValues = MaxPairs
  /\ \A i \in Range(hcall.futs) : task[i].status = "done" /\ task[i].dirAtStart

\* C18: a deserialize call that lacks a descriptor -- args is None, or the
\* descriptor of one element is None -- does not return; it fails with the
\* error raised for missing restore arguments (the ValueError of line 77),
\* and no iterator has been restored in place by then.
C18_MissingArgsFailClean ==
  LET missing == hcall.argsNone \/ \E i \in Pairs : hcall.args[i] = "None" IN
  hcall.op = "deserialize" =>
    /\ hcall.phase = "returned" => ~missing
    /\ (hcall.phase = "raised" /\ missing) =>
         /\ hcall.exc = "ValueError"
         /\ restored = {}

\* C19: when serialize returns, the executor is shut down, nothing is queued
\* or running and every returned future is done; at no time do two routines
\* run together, and routines start in pair order, each after the routines of
\* the pairs before it have ended.
C19_PoolDrainedInOrder ==
  hcall.op = "serialize" =>
    /\ hcall.phase = "returned" =>
         /\ pool.shutdown /\ ~pool.open
         /\ pool.queue = << >> /\ pool.running = {}
         /\ \A i \in Range(hcall.futs) : Finished(i)
    /\ Cardinality(pool.running) <= 1
    /\ \A j, k \in 1..Len(startLog) : j < k => startLog[j] < startLog[k]
    /\ \A i \in pool.running : \A j \in 1..(i - 1) : Finished(j)

\* serialize has returned after two routines ran one after the other, the
\* first of them having failed.
C19_Witness ==
  /\ hcall.op = "serialize" /\ hcall.phase = "returned"
  /\ Len(startLog) >= 2
  /\ task[startLog[1]].status = "failed"
  /\ task[startLog[2]].status = "done"
  /\ pool.shutdown

====
